---- MODULE Spec2Model ----
(***************************************************************************)
(* Model of the GameCube disc image codec of randomprime                   *)
(* (structs/src/gc_disc.rs): GcDisc::read, the caller's payload mutations  *)
(* (FstEntry::guess_kind, FstEntry::file_mut), and GcDisc::write with the  *)
(* layout planner FileSystemTable::recalculate_offsets_and_lengths.        *)
(*                                                                         *)
(* Numbers.  The code computes in u32 and usize; values reach 2^32 and     *)
(* beyond, past what the model checker's integers hold.  A number is       *)
(* therefore a record [h, b, r] standing for h * 2^32 + b * 32 + r with    *)
(* 0 <= r < 32 and 0 <= b < 2^27.  A u32 is a number with h = 0.  The low  *)
(* limb is 32 wide because 32 is the planner's alignment, so              *)
(* `(x + 31) & (u32::MAX - 31)` acts on the limbs directly.                *)
(*                                                                         *)
(* Bytes.  A byte is its value 0..255; names are sequences of ASCII codes. *)
(* File contents are not stored byte by byte: a payload that is a view of  *)
(* the input buffer is the pair (offset, length) of that view, and a write *)
(* to the sink records which view or which structure it wrote and where.   *)
(***************************************************************************)
EXTENDS Integers, Sequences, FiniteSets, TLC

\* Number of entries of the largest directory table modelled (root included).
MaxEntries == 3

\* gc_disc.rs:15
GC_DISC_LENGTH == 1459978240
\* gc_disc.rs:198, the 31 of `(e.length + 31) & (u32::max_value() - 31)`
ALIGN_MASK == 31
\* FstEntry::fixed_size(): flags u8, unused u8, name_offset u16, offset u32, length u32
FST_ENTRY_SIZE == 12
\* GcDiscHeader::fixed_size(): the sum of the field widths of gc_disc.rs:83-115
HEADER_SIZE == 1088
\* gc_disc.rs:20, GenericArray<u8, U8192>
HEADER_INFO_SIZE == 8192
\* gc_disc.rs:96, 0xc2339f3d as its two 16-bit halves <<0xc233, 0x9f3d>>
MAGIC == <<49715, 40765>>
\* "default.dol" (gc_disc.rs:59) as ASCII codes
DEFAULT_DOL == <<100, 101, 102, 97, 117, 108, 116, 46, 100, 111, 108>>
\* b"pak" (gc_disc.rs:288) as ASCII codes
PAK_EXT == <<112, 97, 107>>

-----------------------------------------------------------------------------
(* u32 / usize arithmetic on [h, b, r] *)

BLOCK == ALIGN_MASK + 1
\* 2^32 / 32: the number of 32-byte blocks a u32 spans
U32_BLOCKS == 2^27

\* A natural below 2^31 as a number.
Num(n) == [h |-> 0, b |-> n \div BLOCK, r |-> n % BLOCK]

ZERO == Num(0)
\* u32::max_value()
U32_MAX == [h |-> 0, b |-> U32_BLOCKS - 1, r |-> BLOCK - 1]

Lt(x, y) ==
    \/ x.h < y.h
    \/ x.h = y.h /\ x.b < y.b
    \/ x.h = y.h /\ x.b = y.b /\ x.r < y.r

Le(x, y) == x = y \/ Lt(x, y)

\* x + y without wrap-around (usize / u64 positions; h carries what a u32 cannot hold).
NumAdd(x, y) ==
    LET r == x.r + y.r
        b == x.b + y.b + (r \div BLOCK)
    IN  [h |-> x.h + y.h + (b \div U32_BLOCKS), b |-> b % U32_BLOCKS, r |-> r % BLOCK]

\* `x as u32`: the low 32 bits.
AsU32(x) == [x EXCEPT !.h = 0]

\* Whether the u32 addition `x + 31` overflows: x > 2^32 - 32.
Add31Overflows(x) == x.b = U32_BLOCKS - 1 /\ x.r >= 1

\* Fault injection: the length taken as it is, not rounded up to a multiple of 32.
AlignUpNoRounding(x) == AsU32(x)

\* `(x + 31) & (u32::max_value() - 31)` in wrapping u32 arithmetic: x rounded up
\* to a multiple of 32, and 0 when x + 31 wrapped.
AlignUpWrapping(x) ==
    [h |-> 0, b |-> (x.b + (IF x.r = 0 THEN 0 ELSE 1)) % U32_BLOCKS, r |-> 0]

\* Whether the u32 subtraction `x - y` overflows.
SubOverflows(x, y) == Lt(x, y)

\* `x - y` in wrapping u32 arithmetic.
SubWrapping(x, y) ==
    LET r == x.r - y.r
        b == x.b - y.b - (IF r < 0 THEN 1 ELSE 0)
    IN  [h |-> 0, b |-> b % U32_BLOCKS, r |-> r % BLOCK]

\* The number of 32-byte blocks x rounded up to a multiple of 32 spans, in the integers.
BlocksOf(x) == x.h * U32_BLOCKS + x.b + (IF x.r = 0 THEN 0 ELSE 1)

-----------------------------------------------------------------------------
(* The input buffer *)

\* The name pool of the modelled images: "foo.dat\0default.dol\0a.PAK\0".
NamePool ==
    <<102, 111, 111, 46, 100, 97, 116, 0,
      100, 101, 102, 97, 117, 108, 116, 46, 100, 111, 108, 0,
      97, 46, 80, 65, 75, 0>>

\* The modelled files, <<name offset, data offset, data length>>: "default.dol"
\* (name offset 8), "a.PAK" (20) and "foo.dat" (0), each either in the front part
\* of the image, at 1000 or 2000, or in one of the two slots a packed image ends
\* with.  Two files may share offset 1000.  The last is an empty file whose name
\* offset 23 points at the tail "AK" of "a.PAK": a name of two bytes.
FileTemplates ==
    { <<8, Num(1000), Num(50)>>, <<8, Num(GC_DISC_LENGTH - 64), Num(50)>>,
      <<20, Num(2000), Num(60)>>, <<20, Num(GC_DISC_LENGTH - 128), Num(60)>>,
      <<0, Num(1000), Num(50)>>, <<0, Num(2000), Num(60)>>,
      <<23, Num(1000), ZERO>> }

\* The name offsets of the modelled sub-directories: "default.dol" and "a.PAK"
\* (the root, at name offset 0, is the directory named "foo.dat").
DirNameOffsets == {8, 20}

\* The 12-byte records of the table as stored in the buffer.
RawFile(t) ==
    [flags |-> 0, unused |-> 0, name_offset |-> t[1], offset |-> t[2], length |-> t[3]]

\* A directory record: offset is the parent's index, length the index after its subtree.
RawDir(no, n) ==
    [flags |-> 1, unused |-> 0, name_offset |-> no, offset |-> ZERO, length |-> Num(n)]

RawEntries(n) ==
    { RawFile(t) : t \in FileTemplates } \cup { RawDir(no, n) : no \in DirNameOffsets }

\* The tables of n entries: the root (its length is the entry count) and n - 1 more.
RawTables(n) ==
    { <<RawDir(0, n)>> \o t : t \in [1 .. n - 1 -> RawEntries(n)] }

IsDefaultDolFile(e) == e.flags = 0 /\ e.name_offset = 8

\* A disc image: the header fields, the apploader's size fields, the table and the pool.
\* `rest` stands for the identifiers and the reserved padding of the header.
Image(magic, table) ==
    LET n == Len(table)
        dols == { i \in 1 .. n : IsDefaultDolFile(table[i]) }
        first == CHOOSE i \in dols : \A j \in dols : i <= j
    IN  [ header |->
            [ rest |-> "id_and_padding", magic |-> magic,
              main_dol_offset |-> IF dols = {} THEN ZERO ELSE table[first].offset,
              fst_offset |-> Num(9376),
              fst_length |-> Num(n * FST_ENTRY_SIZE + Len(NamePool)),
              fst_max_length |-> Num(n * FST_ENTRY_SIZE + Len(NamePool)) ],
          apploader |-> [size |-> Num(32), trailer_size |-> Num(16)],
          fst |-> table,
          pool |-> NamePool ]

\* A corrupted magic field.
BAD_MAGIC == <<49715, 40764>>

Images ==
    { Image(m, t) : m \in {MAGIC, BAD_MAGIC},
                    t \in UNION { RawTables(n) : n \in 2 .. MaxEntries } }

-----------------------------------------------------------------------------
VARIABLES
    overflow_checks,  \* the build: TRUE when u32 overflow panics (debug), FALSE when it wraps (release)
    disc,             \* the input buffer
    pc,               \* "start", "parsed", "done" (write returned), "panic"
    err,              \* what panicked
    header,           \* GcDisc.header
    apploader,        \* GcDisc.apploader
    fst_entries,      \* GcDisc.file_system_table.fst_entries
    string_table,     \* GcDisc.file_system_table.string_table, a view of the buffer
    sink              \* the operations performed on the writer, in order

\* The command-line loader, PatchConfig::from_cli_options (patch_config.rs).
VARIABLES
    matches,          \* clap's ArgMatches: what the command line gave
    profile,          \* the PatchConfigPrivate serde reads from the --profile file
    patch_config,     \* the local patch_config of from_cli_options when parse() is called
    config,           \* the PatchConfig parse() returns
    cli_pc            \* "idle", "start", "done", "panic"

cli_vars == <<matches, profile, patch_config, config, cli_pc>>

vars == <<overflow_checks, disc, pc, err, header, apploader, fst_entries, string_table, sink,
          matches, profile, patch_config, config, cli_pc>>

NoValue == [none |-> TRUE]

\* The loader is not part of a run that only reads and writes a disc.
CliIdle ==
    /\ matches = NoValue
    /\ profile = NoValue
    /\ patch_config = NoValue
    /\ config = NoValue
    /\ cli_pc = "idle"

Init ==
    /\ overflow_checks \in BOOLEAN
    /\ disc \in Images
    /\ pc = "start"
    /\ err = ""
    /\ header = NoValue
    /\ apploader = NoValue
    /\ fst_entries = <<>>
    /\ string_table = NoValue
    /\ sink = <<>>
    /\ CliIdle

-----------------------------------------------------------------------------
(* GcDisc::read *)

\* A small number as a natural (entry counts and table sizes).
ToNat(x) == x.b * BLOCK + x.r

\* CStr: the bytes of `bytes` from 0-based offset `off` up to the terminating 0.
RECURSIVE CStrRead(_, _)
CStrRead(bytes, off) ==
    IF off >= Len(bytes) \/ bytes[off + 1] = 0
    THEN <<>>
    ELSE <<bytes[off + 1]>> \o CStrRead(bytes, off + 1)

\* FstEntryFile: Unknown and Pak hold the view (off, len) of the buffer they were
\* read from; size is what FstEntryFile::size returns.
Unknown(off, len) == [kind |-> "Unknown", off |-> off, len |-> len, size |-> len]
Pak(off, len, size) == [kind |-> "Pak", off |-> off, len |-> len, size |-> size]
ExternalFile(size) == [kind |-> "ExternalFile", off |-> ZERO, len |-> ZERO, size |-> size]

\* FstEntry read: the five stored fields, then the two literals `file` and `name`.
FstEntryRead(raw, pool) ==
    [ flags |-> raw.flags, unused |-> raw.unused, name_offset |-> raw.name_offset,
      offset |-> raw.offset, length |-> raw.length,
      file |-> Unknown(raw.offset, raw.length),
      name |-> CStrRead(pool, raw.name_offset) ]

\* Fault injection: the header read without the check of the magic.
GcDiscHeaderReadUnchecked(buf) == [panic |-> FALSE, value |-> buf.header]

\* GcDiscHeader read: the fields in order; `#[expect = 0xc2339f3d]` on magic.
GcDiscHeaderRead(buf) ==
    IF buf.header.magic = MAGIC
    THEN [panic |-> FALSE, value |-> buf.header]
    ELSE [panic |-> TRUE, value |-> NoValue]

\* GcDiscApploader read: date, entrypoint, size, trailer_size, then a view of
\* size + trailer_size bytes.
GcDiscApploaderRead(buf, at) ==
    [ size |-> buf.apploader.size, trailer_size |-> buf.apploader.trailer_size,
      code |-> [off |-> NumAdd(at, Num(28)),
                len |-> NumAdd(buf.apploader.size, buf.apploader.trailer_size)] ]

\* FileSystemTable::read: the root entry gives the entry count fst_len; the string
\* table starts after fst_len records and is truncated to total_size - fst_len bytes.
FileSystemTableRead(buf, fst_offset, total_size) ==
    LET fst_len == ToNat(buf.fst[1].length)
        string_table_start == NumAdd(fst_offset, Num(fst_len * FST_ENTRY_SIZE))
    IN  [ fst_entries |-> [i \in 1 .. fst_len |-> FstEntryRead(buf.fst[i], buf.pool)],
          string_table |-> [off |-> string_table_start,
                            len |-> Num(ToNat(total_size) - fst_len)] ]

GcDiscRead ==
    /\ pc = "start"
    /\ LET h == GcDiscHeaderRead(disc)
       IN  IF h.panic
           THEN /\ pc' = "panic"
                /\ err' = "magic"
                /\ UNCHANGED <<header, apploader, fst_entries, string_table>>
           ELSE LET fst == FileSystemTableRead(disc, h.value.fst_offset, h.value.fst_length)
                IN  /\ pc' = "parsed"
                    /\ err' = ""
                    /\ header' = h.value
                    /\ apploader' = GcDiscApploaderRead(disc, Num(HEADER_SIZE + HEADER_INFO_SIZE))
                    /\ fst_entries' = fst.fst_entries
                    /\ string_table' = fst.string_table
    /\ UNCHANGED <<overflow_checks, disc, sink>>
    /\ UNCHANGED cli_vars

-----------------------------------------------------------------------------
(* The caller's mutations between read and write *)

\* FstEntry::is_folder
is_folder(e) == e.flags = 1

\* u8::make_ascii_lowercase on one byte
ToAsciiLowercase(c) == IF c >= 65 /\ c <= 90 THEN c + 32 ELSE c

\* Fault injection: guess_kind decoding the archive again from the entry's view
\* when the payload is a Pak already, which drops the edits made since.
guess_kind_redecoding(e) ==
    LET name == e.name
        len == Len(name)
    IN  IF len < 3
        THEN [panic |-> TRUE, entry |-> e]
        ELSE LET ext == <<ToAsciiLowercase(name[len - 2]), ToAsciiLowercase(name[len - 1]),
                          ToAsciiLowercase(name[len])>>
             IN  IF ext = PAK_EXT
                 THEN IF e.file.kind \in {"Unknown", "Pak"}
                      THEN [panic |-> FALSE,
                            entry |-> [e EXCEPT !.file = Pak(e.file.off, e.file.len, e.file.len)]]
                      ELSE [panic |-> TRUE, entry |-> e]
                 ELSE [panic |-> FALSE, entry |-> e]

\* Fault injection: guess_kind comparing the extension without lowercasing it.
guess_kind_case_sensitive(e) ==
    LET name == e.name
        len == Len(name)
    IN  IF len < 3
        THEN [panic |-> TRUE, entry |-> e]
        ELSE IF <<name[len - 2], name[len - 1], name[len]>> = PAK_EXT
             THEN CASE e.file.kind = "Unknown" ->
                          [panic |-> FALSE,
                           entry |-> [e EXCEPT !.file = Pak(e.file.off, e.file.len, e.file.len)]]
                    [] e.file.kind = "Pak" -> [panic |-> FALSE, entry |-> e]
                    [] OTHER -> [panic |-> TRUE, entry |-> e]
             ELSE [panic |-> FALSE, entry |-> e]

\* FstEntry::guess_kind: [panic, entry].  name[len - 3] panics on a name shorter
\* than 3 bytes; an ExternalFile payload under a pak name panics.
guess_kind(e) ==
    LET name == e.name
        len == Len(name)
    IN  IF len < 3
        THEN [panic |-> TRUE, entry |-> e]
        ELSE LET ext == <<ToAsciiLowercase(name[len - 2]), ToAsciiLowercase(name[len - 1]),
                          ToAsciiLowercase(name[len])>>
             IN  IF ext = PAK_EXT
                 THEN CASE e.file.kind = "Unknown" ->
                              [panic |-> FALSE,
                               entry |-> [e EXCEPT !.file = Pak(e.file.off, e.file.len, e.file.len)]]
                        [] e.file.kind = "Pak" -> [panic |-> FALSE, entry |-> e]
                        [] OTHER -> [panic |-> TRUE, entry |-> e]
                 ELSE [panic |-> FALSE, entry |-> e]

GuessKind(i) ==
    /\ pc = "parsed"
    /\ LET g == guess_kind(fst_entries[i])
       IN  /\ fst_entries' = [fst_entries EXCEPT ![i] = g.entry]
           /\ pc' = IF g.panic THEN "panic" ELSE pc
           /\ err' = IF g.panic THEN "guess_kind" ELSE err
    /\ UNCHANGED <<overflow_checks, disc, header, apploader, string_table, sink>>
    /\ UNCHANGED cli_vars

\* 2^32 + 50: a declared size (usize, 64 bits wide) that no u32 holds.
USIZE_ABOVE_U32 == [h |-> 1, b |-> 1, r |-> 18]

\* The sizes of the replacement files a caller supplies: a small file, one as large
\* as the disc, the largest a u32 length holds, and one beyond.
ExternalSizes == { Num(200), Num(GC_DISC_LENGTH), U32_MAX, USIZE_ABOVE_U32 }

\* FstEntry::file_mut: None for a folder.  The caller replaces the payload with an
\* ExternalFile of a declared size.
ReplaceFile(i, size) ==
    /\ pc = "parsed"
    /\ ~is_folder(fst_entries[i])
    /\ fst_entries' = [fst_entries EXCEPT ![i].file = ExternalFile(size)]
    /\ UNCHANGED <<overflow_checks, disc, pc, err, header, apploader, string_table, sink>>
    /\ UNCHANGED cli_vars

\* The caller edits a decoded Pak through file_mut; its serialized size becomes `size`.
ModifyPak(i, size) ==
    /\ pc = "parsed"
    /\ ~is_folder(fst_entries[i])
    /\ fst_entries[i].file.kind = "Pak"
    /\ fst_entries' = [fst_entries EXCEPT ![i].file.size = size]
    /\ UNCHANGED <<overflow_checks, disc, pc, err, header, apploader, string_table, sink>>
    /\ UNCHANGED cli_vars

-----------------------------------------------------------------------------
(* FileSystemTable::recalculate_offsets_and_lengths *)

\* FstEntryFile::size
FileSize(f) == f.size

\* `entries.sort_by(|l, r| l.offset.cmp(&r.offset).reverse())` over the non-folder
\* entries: their indices by descending offset; the sort is stable, so entries of
\* equal offset keep their table order.
RECURSIVE SortByOffsetReversed(_, _)
SortByOffsetReversed(es, S) ==
    IF S = {}
    THEN <<>>
    ELSE LET i == CHOOSE i \in S : \A j \in S \ {i} :
                      \/ Lt(es[j].offset, es[i].offset)
                      \/ es[j].offset = es[i].offset /\ i < j
         IN  <<i>> \o SortByOffsetReversed(es, S \ {i})

\* Fault injection: the planner places the directory entries as well.
AllIndices(es) == 1 .. Len(es)

FileIndices(es) == { i \in 1 .. Len(es) : ~is_folder(es[i]) }

\* Fault injection: a planner that packs forward from the start of the image;
\* each file is placed at the number of bytes already handed out.
RECURSIVE PlaceFilesFromFront(_, _, _, _)
PlaceFilesFromFront(es, order, last, checks) ==
    IF order = <<>>
    THEN [panic |-> FALSE, entries |-> es]
    ELSE LET i == Head(order)
             length == AsU32(FileSize(es[i].file))
             es1 == [es EXCEPT ![i].length = length]
             aligned == AlignUpWrapping(length)
         IN  IF checks /\ (Add31Overflows(length) \/ SubOverflows(last, aligned))
             THEN [panic |-> TRUE, entries |-> es1]
             ELSE PlaceFilesFromFront(
                      [es1 EXCEPT ![i].offset = SubWrapping(Num(GC_DISC_LENGTH), last)],
                      Tail(order), SubWrapping(last, aligned), checks)

\* The loop `for e in entries`: `order` is what is left to place, `last` is
\* last_file_offset.  With overflow checks, `e.length + 31` and the `-=` panic on
\* overflow; without, they wrap.  A panic leaves e.length assigned and e.offset not.
RECURSIVE PlaceFiles(_, _, _, _)
PlaceFiles(es, order, last, checks) ==
    IF order = <<>>
    THEN [panic |-> FALSE, entries |-> es]
    ELSE LET i == Head(order)
             length == AsU32(FileSize(es[i].file))
             es1 == [es EXCEPT ![i].length = length]
             aligned == AlignUpWrapping(length)
         IN  IF checks /\ (Add31Overflows(length) \/ SubOverflows(last, aligned))
             THEN [panic |-> TRUE, entries |-> es1]
             ELSE LET last_file_offset == SubWrapping(last, aligned)
                  IN  PlaceFiles([es1 EXCEPT ![i].offset = last_file_offset],
                                 Tail(order), last_file_offset, checks)

recalculate_offsets_and_lengths(es, checks) ==
    PlaceFiles(es, SortByOffsetReversed(es, FileIndices(es)),
               AsU32(Num(GC_DISC_LENGTH)), checks)

-----------------------------------------------------------------------------
(* The sink: the writer's operations *)

Seek(pos) ==
    [op |-> "seek", what |-> "", idx |-> 0, pos |-> pos, len |-> ZERO, content |-> <<>>]

\* `len` bytes written at position `pos`; idx is the entry written, 0 for the rest.
WriteOp(what, idx, pos, len, content) ==
    [op |-> "write", what |-> what, idx |-> idx, pos |-> pos, len |-> len, content |-> content]

\* FstEntryFile::write: what a payload puts in the writer.  Unknown copies its view
\* of the buffer, Pak serializes the decoded archive, ExternalFile copies its reader.
FileContent(f) ==
    CASE f.kind = "Unknown" -> <<"view", f.off, f.len>>
      [] f.kind = "Pak" -> <<"pak", f.off, f.len, f.size>>
      [] OTHER -> <<"external", f.size>>

\* What the reader of an ExternalFile yields beyond the declared size before it
\* reports the end of its stream: nothing, or 100 bytes more.  The reader is the
\* caller's; its stream is seen only when write drains it.
StreamExcess == { ZERO, Num(100) }

\* FstEntryFile::write: the number of bytes a payload puts in the writer.  Unknown
\* writes its view and Pak its serialized size; ExternalFile copies its reader in
\* chunks of 4096 until read returns 0 and never looks at the declared size.
BytesWritten(f, excess) ==
    IF f.kind = "ExternalFile" THEN NumAdd(f.size, excess) ELSE FileSize(f)

\* FileSystemTable::write_files: in table order, for each entry with a file,
\* seek to its offset and write the payload.
RECURSIVE write_files(_, _, _)
write_files(es, i, excess) ==
    IF i > Len(es)
    THEN <<>>
    ELSE IF is_folder(es[i])
         THEN write_files(es, i + 1, excess)
         ELSE <<Seek(es[i].offset),
                WriteOp("file", i, es[i].offset, BytesWritten(es[i].file, excess),
                        FileContent(es[i].file))>>
              \o write_files(es, i + 1, excess)

\* The stored fields of an entry, as FstEntry's Writable emits them.
EntryFields(e) ==
    [ flags |-> e.flags, unused |-> e.unused, name_offset |-> e.name_offset,
      offset |-> e.offset, length |-> e.length ]

\* Fault injection: a write that refreshes the header's directory-table length
\* from the size of the table it serializes.
write_front_refreshing_fst_length(h, app, es, st) ==
    LET app_at == Num(HEADER_SIZE + HEADER_INFO_SIZE)
        app_len == NumAdd(Num(28), app.code.len)
        es_len == Num(Len(es) * FST_ENTRY_SIZE)
        h1 == [h EXCEPT !.fst_length = NumAdd(es_len, st.len)]
    IN  << Seek(ZERO),
           WriteOp("header", 0, ZERO, Num(HEADER_SIZE), <<"header", h1>>),
           WriteOp("header_info", 0, Num(HEADER_SIZE), Num(HEADER_INFO_SIZE),
                   <<"view", Num(HEADER_SIZE), Num(HEADER_INFO_SIZE)>>),
           WriteOp("apploader", 0, app_at, app_len, <<"apploader", app>>),
           Seek(h.fst_offset),
           WriteOp("fst_entries", 0, h.fst_offset, es_len,
                   <<"entries", [i \in 1 .. Len(es) |-> EntryFields(es[i])]>>),
           WriteOp("string_table", 0, NumAdd(h.fst_offset, es_len), st.len,
                   <<"view", st.off, st.len>>) >>

\* gc_disc.rs:68-75: seek to 0; header, header_info, apploader; seek to fst_offset;
\* the table's entries, then its string table.
write_front(h, app, es, st) ==
    LET app_at == Num(HEADER_SIZE + HEADER_INFO_SIZE)
        app_len == NumAdd(Num(28), app.code.len)
        es_len == Num(Len(es) * FST_ENTRY_SIZE)
    IN  << Seek(ZERO),
           WriteOp("header", 0, ZERO, Num(HEADER_SIZE), <<"header", h>>),
           WriteOp("header_info", 0, Num(HEADER_SIZE), Num(HEADER_INFO_SIZE),
                   <<"view", Num(HEADER_SIZE), Num(HEADER_INFO_SIZE)>>),
           WriteOp("apploader", 0, app_at, app_len, <<"apploader", app>>),
           Seek(h.fst_offset),
           WriteOp("fst_entries", 0, h.fst_offset, es_len,
                   <<"entries", [i \in 1 .. Len(es) |-> EntryFields(es[i])]>>),
           WriteOp("string_table", 0, NumAdd(h.fst_offset, es_len), st.len,
                   <<"view", st.off, st.len>>) >>

-----------------------------------------------------------------------------
(* GcDisc::write *)

\* Fault injection: the last entry of that name instead of the first.
FindLastDefaultDol(es) ==
    LET S == { i \in 1 .. Len(es) : es[i].name = DEFAULT_DOL }
    IN  IF S = {} THEN 0 ELSE CHOOSE i \in S : \A j \in S : j <= i

\* Fault injection: the root entry, whose offset is 0, when no entry has that name.
FindDefaultDolOrRoot(es) ==
    LET S == { i \in 1 .. Len(es) : es[i].name = DEFAULT_DOL }
    IN  IF S = {} THEN 1 ELSE CHOOSE i \in S : \A j \in S : i <= j

\* `fst_entries.iter().find(|e| e.name.to_bytes() == "default.dol".as_bytes())`:
\* the index of the first entry of that name, 0 when there is none.
FindDefaultDol(es) ==
    LET S == { i \in 1 .. Len(es) : es[i].name = DEFAULT_DOL }
    IN  IF S = {} THEN 0 ELSE CHOOSE i \in S : \A j \in S : i <= j

\* Fault injection: the front of the image written before the files.
FrontThenFiles(file_ops, front_ops) == front_ops \o file_ops

\* The order of write's sink operations: write_files runs before the seek to 0.
WriteSequence(file_ops, front_ops) == file_ops \o front_ops

GcDiscWrite(excess) ==
    /\ pc = "parsed"
    /\ LET plan == recalculate_offsets_and_lengths(fst_entries, overflow_checks)
           dol == FindDefaultDol(plan.entries)
           file_ops == write_files(plan.entries, 1, excess)
       IN  /\ fst_entries' = plan.entries
           /\ IF plan.panic
              THEN /\ pc' = "panic"
                   /\ err' = "overflow"
                   /\ UNCHANGED <<header, sink>>
              ELSE IF dol = 0
              THEN /\ pc' = "panic"
                   /\ err' = "default.dol"
                   /\ sink' = sink \o file_ops
                   /\ UNCHANGED header
              ELSE LET h == [header EXCEPT !.main_dol_offset = plan.entries[dol].offset]
                   IN  /\ pc' = "done"
                       /\ err' = ""
                       /\ header' = h
                       /\ sink' = sink \o WriteSequence(file_ops,
                                      write_front(h, apploader, plan.entries, string_table))
    /\ UNCHANGED <<overflow_checks, disc, apploader, string_table>>
    /\ UNCHANGED cli_vars

-----------------------------------------------------------------------------
Next ==
    \/ GcDiscRead
    \/ \E i \in 1 .. Len(fst_entries) : GuessKind(i)
    \/ \E i \in 1 .. Len(fst_entries), size \in ExternalSizes : ReplaceFile(i, size)
    \/ \E i \in 1 .. Len(fst_entries) : ModifyPak(i, Num(200))
    \/ \E excess \in StreamExcess : GcDiscWrite(excess)

Spec == Init /\ [][Next]_vars

-----------------------------------------------------------------------------
(* The command-line loader: PatchConfig::from_cli_options.  Four of its      *)
(* options stand for the rest: a flag ("force vanilla layout"), a string     *)
(* ("starting room"), a number ("etank capacity"), and "starting memo", one  *)
(* of the three options that are registered with clap and never read back.   *)

\* Option<T>
None == NoValue
Some(v) == [some |-> v]
is_some(o) == "some" \in DOMAIN o
unwrap_or(o, d) == IF is_some(o) THEN o.some ELSE d

\* Values of --etank-capacity as ASCII codes: "200" and "2x0".
ETANK_200 == <<50, 48, 48>>
ETANK_BAD == <<50, 120, 48>>

\* What the command line can give.  A flag is present or not; an option that
\* takes a value is None when absent.
CliMatches ==
    [ profile_json_path : {None, Some("profile.json")},
      force_vanilla_layout : BOOLEAN,
      starting_room : {None, Some("Chozo:Ruins Entrance")},
      starting_memo : {None, Some("memo of the command line")},
      etank_capacity : {None, Some(ETANK_200), Some(ETANK_BAD)} ]

\* What serde can read from the profile: every field of PatchConfigPrivate is
\* an Option, None when the JSON leaves it out.
Profiles ==
    [ force_vanilla_layout : {None, Some(FALSE), Some(TRUE)},
      starting_room : {None, Some("Mines:Mines Entrance")},
      starting_memo : {None, Some("memo of the profile")},
      etank_capacity : {None, Some(150)} ]

\* PatchConfigPrivate::default()
PatchConfigPrivateDefault ==
    [ force_vanilla_layout |-> None, starting_room |-> None,
      starting_memo |-> None, etank_capacity |-> None ]

\* str::parse::<u32> on a string of at most three bytes (too short to exceed
\* u32): [ok, value].  An optional leading '+', then one or more digits.
RECURSIVE ParseDigits(_, _)
ParseDigits(s, acc) ==
    IF s = <<>>
    THEN [ok |-> TRUE, value |-> acc]
    ELSE IF Head(s) \in 48 .. 57
         THEN ParseDigits(Tail(s), acc * 10 + (Head(s) - 48))
         ELSE [ok |-> FALSE, value |-> 0]

ParseU32(s) ==
    LET digits == IF s # <<>> /\ Head(s) = 43 THEN Tail(s) ELSE s
    IN  IF digits = <<>> THEN [ok |-> FALSE, value |-> 0] ELSE ParseDigits(digits, 0)

\* The body of from_cli_options between get_matches() and parse(): the
\* populate_config_bool! block, the strings, the numbers.  No statement reads
\* "starting memo".
Populate(c, m) ==
    [ c EXCEPT
        !.force_vanilla_layout = IF m.force_vanilla_layout THEN Some(TRUE) ELSE @,
        !.starting_room = IF is_some(m.starting_room) THEN m.starting_room ELSE @,
        !.etank_capacity = IF is_some(m.etank_capacity)
                           THEN Some(ParseU32(m.etank_capacity.some).value) ELSE @ ]

\* PatchConfigPrivate::parse, for the four fields, the files it opens existing.
parse(c) ==
    LET force_vanilla_layout == unwrap_or(c.force_vanilla_layout, FALSE)
    IN  [ force_vanilla_layout |-> force_vanilla_layout,
          starting_room |-> IF force_vanilla_layout
                            THEN "Frigate:Exterior Docking Hangar"
                            ELSE unwrap_or(c.starting_room, "Tallon:Landing Site"),
          starting_memo |-> c.starting_memo,
          etank_capacity |-> unwrap_or(c.etank_capacity, 100) ]

\* The configuration from_cli_options starts from: the profile when --profile
\* is given, the default otherwise.
Loaded == IF is_some(matches.profile_json_path) THEN profile ELSE PatchConfigPrivateDefault

\* PatchConfig::from_cli_options.  The unwrap() of a failed number parse panics.
from_cli_options ==
    /\ cli_pc = "start"
    /\ IF is_some(matches.etank_capacity) /\ ~ParseU32(matches.etank_capacity.some).ok
       THEN /\ cli_pc' = "panic"
            /\ UNCHANGED <<patch_config, config>>
       ELSE /\ cli_pc' = "done"
            /\ patch_config' = Populate(Loaded, matches)
            /\ config' = parse(Populate(Loaded, matches))
    /\ UNCHANGED <<matches, profile>>
    /\ UNCHANGED <<overflow_checks, disc, pc, err, header, apploader, fst_entries,
                   string_table, sink>>

\* The loader alone: no disc is read or written.
InitCli ==
    /\ matches \in CliMatches
    /\ profile \in IF is_some(matches.profile_json_path) THEN Profiles ELSE {NoValue}
    /\ patch_config = NoValue
    /\ config = NoValue
    /\ cli_pc = "start"
    /\ overflow_checks = FALSE
    /\ disc = NoValue
    /\ pc = "idle"
    /\ err = ""
    /\ header = NoValue
    /\ apploader = NoValue
    /\ fst_entries = <<>>
    /\ string_table = NoValue
    /\ sink = <<>>

NextCli == from_cli_options

SpecCli == InitCli /\ [][NextCli]_vars

-----------------------------------------------------------------------------
(* Vocabulary of the properties *)

\* write has run recalculate_offsets_and_lengths to its end.
Planned == pc = "done" \/ (pc = "panic" /\ err = "default.dol")

\* write has been called.
WriteCalled == Planned \/ (pc = "panic" /\ err = "overflow")

Files == { i \in 1 .. Len(fst_entries) : fst_entries[i].flags = 0 }

\* No payload was replaced or promoted: every entry still holds the view it was read with.
Untouched ==
    \A i \in 1 .. Len(fst_entries) :
        fst_entries[i].file = Unknown(disc.fst[i].offset, disc.fst[i].length)

RECURSIVE SumBlocks(_, _)
SumBlocks(size, S) ==
    IF S = {}
    THEN 0
    ELSE LET i == CHOOSE i \in S : TRUE
         IN  BlocksOf(size[i]) + SumBlocks(size, S \ {i})

CapacityBlocks == GC_DISC_LENGTH \div BLOCK

\* The files of the input table that the planner places before file i or with it:
\* those of a higher offset, and those of the same offset not later in the table.
PlacedUpTo(i) ==
    { j \in 1 .. Len(disc.fst) :
        /\ disc.fst[j].flags = 0
        /\ \/ Lt(disc.fst[i].offset, disc.fst[j].offset)
           \/ disc.fst[i].offset = disc.fst[j].offset /\ j <= i }

\* The input's files already lie packed back from the end of the image: each at
\* the capacity minus the lengths, rounded up to 32, of the files placed up to it.
PackedInput ==
    LET length == [j \in 1 .. Len(disc.fst) |-> disc.fst[j].length]
    IN  \A i \in 1 .. Len(disc.fst) :
            disc.fst[i].flags = 0 =>
                /\ SumBlocks(length, PlacedUpTo(i)) <= CapacityBlocks
                /\ disc.fst[i].offset =
                       [h |-> 0, b |-> CapacityBlocks - SumBlocks(length, PlacedUpTo(i)), r |-> 0]

\* The input's entries named "default.dol", of either kind.
InputDols == { i \in 1 .. Len(disc.fst) : CStrRead(disc.pool, disc.fst[i].name_offset) = DEFAULT_DOL }

\* The input header's boot offset is the offset field of the first entry named "default.dol".
BootOffsetOfFirstDol ==
    \E i \in InputDols :
        /\ \A j \in InputDols : i <= j
        /\ disc.header.main_dol_offset = disc.fst[i].offset

\* A write put at w.pos the very bytes the input holds at w.pos.
ReproducesInput(w) ==
    CASE w.what \in {"file", "header_info", "string_table"} ->
             /\ w.content[1] = "view"
             /\ w.len = w.content[3]
             /\ (w.content[2] = w.pos \/ w.len = ZERO)
      [] w.what = "header" -> w.pos = ZERO /\ w.content = <<"header", disc.header>>
      [] w.what = "apploader" ->
             /\ w.pos = Num(HEADER_SIZE + HEADER_INFO_SIZE)
             /\ w.content[2].size = disc.apploader.size
             /\ w.content[2].trailer_size = disc.apploader.trailer_size
      [] w.what = "fst_entries" ->
             w.pos = disc.header.fst_offset /\ w.content = <<"entries", disc.fst>>
      [] OTHER -> FALSE

SinkReproducesInput ==
    /\ \A k \in 1 .. Len(sink) : sink[k].op = "write" => ReproducesInput(sink[k])
    /\ \A i \in Files :
           /\ fst_entries[i].offset = disc.fst[i].offset
           /\ fst_entries[i].length = disc.fst[i].length

-----------------------------------------------------------------------------
(* C1 *)

\* C1 as stated: for every image on which no payload was replaced or promoted,
\* write reproduces the input: every region it writes holds the input's bytes and
\* every file keeps its offset and length.
C1_RoundTripAnyImage == (pc = "done" /\ Untouched) => SinkReproducesInput

\* C1 amended: the same, for the images whose files already lie packed back from
\* the end of the image and whose header already names the offset of the first
\* entry called "default.dol".
C1_RoundTripPackedImage ==
    (pc = "done" /\ Untouched /\ PackedInput /\ BootOffsetOfFirstDol) => SinkReproducesInput

\* A packed image of two files was read and written back untouched.
C1_Witness ==
    /\ pc = "done" /\ Untouched /\ PackedInput /\ BootOffsetOfFirstDol
    /\ Cardinality(Files) = 2
    /\ \E k \in 1 .. Len(sink) : sink[k].what = "file"

-----------------------------------------------------------------------------
(* C2, C3, C4: the planner's arithmetic *)

\* x is a multiple of 32.
Aligned(x) == x.r = 0

\* File j is the one placed right before file i in the planner's order
\* (descending offset before the write, table order among equals).
PlacedNext(i, j) ==
    /\ j \in PlacedUpTo(i) /\ j # i
    /\ \A k \in PlacedUpTo(i) \ {i, j} : k \in PlacedUpTo(j)

\* C2 as stated: once the planner has run, every file's offset is a multiple of
\* 32, and of two files placed one after the other the later (lower) one ends at
\* most 31 bytes before the earlier (higher) one starts, and not after it.
C2_AlignmentAndGap ==
    Planned =>
        /\ \A i \in Files : Aligned(fst_entries[i].offset)
        /\ \A i, j \in Files :
               PlacedNext(i, j) =>
                   LET end == NumAdd(fst_entries[i].offset, fst_entries[i].length)
                   IN  /\ Le(end, fst_entries[j].offset)
                       /\ Le(fst_entries[j].offset, NumAdd(end, Num(ALIGN_MASK)))

\* C3 as stated: once the planner has run, every file ends at or before the capacity.
C3_WithinCapacity ==
    Planned =>
        \A i \in Files :
            Le(NumAdd(fst_entries[i].offset, fst_entries[i].length), Num(GC_DISC_LENGTH))

\* The payload sizes, each rounded up to a multiple of 32, sum to more than the capacity.
OverCapacity ==
    SumBlocks([i \in 1 .. Len(fst_entries) |-> FileSize(fst_entries[i].file)], Files)
        > CapacityBlocks

\* C4 as stated: when the aligned payload sizes sum to more than the capacity,
\* write ends in a fatal error with nothing written to the sink.
C4_CapacityErrorBeforeWrite ==
    (WriteCalled /\ OverCapacity) => (pc = "panic" /\ sink = <<>>)

-----------------------------------------------------------------------------
(* C5, C6: the boot file *)

\* The entries named "default.dol", of either kind.
Dols == { i \in 1 .. Len(fst_entries) : fst_entries[i].name = DEFAULT_DOL }

\* The header write of the sink carries boot offset x.
SerializedBootOffset(x) ==
    \E k \in 1 .. Len(sink) :
        /\ sink[k].what = "header"
        /\ sink[k].content[2].main_dol_offset = x
        /\ \A l \in 1 .. Len(sink) : sink[l].what = "header" => l = k

\* C5 as stated: after a successful write the header's boot offset, in memory and
\* as serialized, is the planned offset of a file entry named "default.dol".
C5_BootOffsetOfDolFile ==
    pc = "done" =>
        \E i \in Dols \cap Files :
            /\ header.main_dol_offset = fst_entries[i].offset
            /\ SerializedBootOffset(fst_entries[i].offset)

\* C5 amended: it is the offset field of the first entry named "default.dol" in
\* table order, file or directory.
C5_BootOffsetOfFirstDol ==
    pc = "done" =>
        \E i \in Dols :
            /\ \A j \in Dols : i <= j
            /\ header.main_dol_offset = fst_entries[i].offset
            /\ SerializedBootOffset(fst_entries[i].offset)

\* write succeeded on a table of two entries named "default.dol", the first of
\* them a file that the planner moved.
C5_Witness ==
    /\ pc = "done"
    /\ \E i \in Dols \cap Files :
           /\ \A j \in Dols : i <= j
           /\ \E j \in Dols : i < j
           /\ fst_entries[i].offset # disc.fst[i].offset
           /\ header.main_dol_offset = fst_entries[i].offset

\* C6: with no entry named "default.dol", write never completes and never
\* writes the header.
C6_NoDolNoHeader ==
    Dols = {} => (pc # "done" /\ \A k \in 1 .. Len(sink) : sink[k].what # "header")

\* write was called on a table without "default.dol" and panicked on the lookup,
\* after the planner and write_files had run.
C6_Witness ==
    /\ Dols = {} /\ pc = "panic" /\ err = "default.dol"
    /\ \E k \in 1 .. Len(sink) : sink[k].what = "file"

-----------------------------------------------------------------------------
(* C7: the order of the sink operations *)

\* C7 as stated: the header, the apploader and the directory table are written
\* first, and only then the files.
C7_FrontBeforeFiles ==
    pc = "done" =>
        \A k, l \in 1 .. Len(sink) :
            (sink[k].what = "string_table" /\ sink[l].what = "file") => k < l

\* The sequence of file indices, ascending.
RECURSIVE Ascending(_)
Ascending(S) ==
    IF S = {}
    THEN <<>>
    ELSE LET i == CHOOSE i \in S : \A j \in S : i <= j
         IN  <<i>> \o Ascending(S \ {i})

\* C7 amended: first, for each file entry in table order, a seek to its new offset
\* and the write of its payload; then the seek to 0, the header, the header-info
\* block, the apploader, the seek to the directory-table offset, the entries and
\* the name pool.
C7_FilesBeforeFront ==
    pc = "done" =>
        LET files == Ascending(Files)
            n == Len(files)
        IN  /\ Len(sink) = 2 * n + 7
            /\ \A k \in 1 .. n :
                   /\ sink[2 * k - 1].op = "seek"
                   /\ sink[2 * k - 1].pos = fst_entries[files[k]].offset
                   /\ sink[2 * k].what = "file"
                   /\ sink[2 * k].idx = files[k]
                   /\ sink[2 * k].pos = fst_entries[files[k]].offset
            /\ sink[2 * n + 1].op = "seek" /\ sink[2 * n + 1].pos = ZERO
            /\ sink[2 * n + 2].what = "header"
            /\ sink[2 * n + 3].what = "header_info"
            /\ sink[2 * n + 4].what = "apploader"
            /\ sink[2 * n + 5].op = "seek" /\ sink[2 * n + 5].pos = header.fst_offset
            /\ sink[2 * n + 6].what = "fst_entries"
            /\ sink[2 * n + 7].what = "string_table"

\* write succeeded on a table of two files.
C7_Witness ==
    /\ pc = "done"
    /\ Cardinality(Files) = 2
    /\ Len(sink) = 11

-----------------------------------------------------------------------------
(* C8: the magic *)

\* C8: a buffer whose magic is not 0xc2339f3d is never parsed into a GcDisc, and
\* nothing reaches the sink; the read ends in the format error.
C8_BadMagicRejected ==
    disc.header.magic # MAGIC =>
        /\ pc \in {"start", "panic"}
        /\ pc = "panic" => err = "magic"
        /\ header = NoValue /\ fst_entries = <<>>
        /\ sink = <<>>

\* A buffer with a corrupted magic was read and the read failed.
C8_Witness == disc.header.magic # MAGIC /\ pc = "panic" /\ err = "magic"

-----------------------------------------------------------------------------
(* C9, C10: guess_kind *)

\* The last three bytes of the name, lowercased, are "pak".
HasPakExtension(e) ==
    /\ Len(e.name) >= 3
    /\ [k \in 1 .. 3 |-> ToAsciiLowercase(e.name[Len(e.name) - 3 + k])] = PAK_EXT

\* C9: for a file entry with the pak extension, a guess_kind that returns leaves
\* a Pak payload, and guess_kind on a Pak payload returns and changes nothing,
\* so a second call leaves what the first left.
C9_PromotionIdempotent ==
    \A i \in Files :
        LET e == fst_entries[i]
            once == guess_kind(e)
        IN  HasPakExtension(e) =>
                /\ ~once.panic => /\ once.entry.file.kind = "Pak"
                                  /\ guess_kind(once.entry) = once
                /\ e.file.kind = "Pak" => once = [panic |-> FALSE, entry |-> e]

\* A file with the pak extension holds a Pak payload whose size was edited since
\* its promotion.
C9_Witness ==
    /\ pc = "parsed"
    /\ \E i \in Files :
           /\ HasPakExtension(fst_entries[i])
           /\ fst_entries[i].file.kind = "Pak"
           /\ fst_entries[i].file.size # fst_entries[i].file.len

\* C10 as stated: a directory entry never holds a Pak payload.
C10_DirectoryNeverPak ==
    \A i \in 1 .. Len(fst_entries) :
        is_folder(fst_entries[i]) => fst_entries[i].file.kind # "Pak"

-----------------------------------------------------------------------------
(* C11: extension sniffing *)

\* "a.PAK" and "foo.dat" as ASCII codes.
NAME_A_PAK == <<97, 46, 80, 65, 75>>
NAME_FOO_DAT == <<102, 111, 111, 46, 100, 97, 116>>

\* C11: guess_kind turns the Unknown payload of a file into a Pak over the same
\* view exactly when the last three bytes of the name, lowercased, are "pak";
\* under any other name it leaves the entry as it is, whatever the payload.
C11_PromotedIffPakExtension ==
    \A i \in Files :
        LET e == fst_entries[i]
            g == guess_kind(e)
        IN  /\ (HasPakExtension(e) /\ e.file.kind = "Unknown") =>
                   /\ ~g.panic
                   /\ g.entry = [e EXCEPT !.file = Pak(e.file.off, e.file.len, e.file.len)]
            /\ ~HasPakExtension(e) => g.entry = e
            /\ (e.file.kind = "Unknown" /\ g.entry.file.kind = "Pak") => HasPakExtension(e)

\* guess_kind has promoted the file "a.PAK" of a table that also holds a file
\* "foo.dat", whose payload is still Unknown.
C11_Witness ==
    /\ pc = "parsed"
    /\ \E i, j \in Files :
           /\ fst_entries[i].name = NAME_A_PAK /\ fst_entries[i].file.kind = "Pak"
           /\ fst_entries[j].name = NAME_FOO_DAT /\ fst_entries[j].file.kind = "Unknown"

-----------------------------------------------------------------------------
(* C12: command-line priority *)

\* The value the command line gives for each of the four options, None when
\* the option is not on the command line.
CliGiven ==
    [ force_vanilla_layout |-> IF matches.force_vanilla_layout THEN Some(TRUE) ELSE None,
      starting_room |-> matches.starting_room,
      starting_memo |-> matches.starting_memo,
      etank_capacity |-> IF matches.etank_capacity = Some(ETANK_200) THEN Some(200) ELSE None ]

CliOptions == {"force_vanilla_layout", "starting_room", "starting_memo", "etank_capacity"}

\* Option o: the command line's value when it gives one, the profile's otherwise.
CliTakesPriority(o) ==
    patch_config[o] = IF is_some(CliGiven[o]) THEN CliGiven[o] ELSE Loaded[o]

\* C12: when from_cli_options returns, every option given on the command line
\* has the command line's value, and every option not given there has the
\* value of the profile.
C12_CliOverridesProfile ==
    cli_pc = "done" => \A o \in CliOptions : CliTakesPriority(o)

-----------------------------------------------------------------------------
(* C13: the planner's processing order *)

\* C13: once the planner has run, a file placed before another (higher offset
\* before the write, or the same offset and earlier in the table) has a new
\* offset at least as high; the file placed first has the highest new offset.
C13_PlacedFirstIsHighest ==
    Planned =>
        \A i, j \in Files :
            j \in PlacedUpTo(i) => Le(fst_entries[i].offset, fst_entries[j].offset)

-----------------------------------------------------------------------------
(* C14: the cursor arithmetic *)

\* The refreshed length fields.
Lengths == [i \in 1 .. Len(fst_entries) |-> fst_entries[i].length]

\* C14: whatever the lengths, the planner's arithmetic does not overflow, and
\* once it has run every file's offset is the capacity minus the lengths, each
\* rounded up to a multiple of 32, of the files placed up to it; so the cursor
\* never goes below zero and never increases.
C14_CursorArithmetic ==
    WriteCalled =>
        /\ ~(pc = "panic" /\ err = "overflow")
        /\ \A i \in Files :
               /\ SumBlocks(Lengths, PlacedUpTo(i)) <= CapacityBlocks
               /\ fst_entries[i].offset =
                      [h |-> 0, b |-> CapacityBlocks - SumBlocks(Lengths, PlacedUpTo(i)), r |-> 0]

-----------------------------------------------------------------------------
(* C15: the length refresh *)

\* C15: once the planner has run, every file's length field is the size of its
\* payload, whole.
C15_LengthIsPayloadSize ==
    Planned => \A i \in Files : fst_entries[i].length = FileSize(fst_entries[i].file)

-----------------------------------------------------------------------------
(* C16: the planner's frame *)

\* Entry b is entry a but for its offset and length.
SameButPlacement(a, b) == b = [a EXCEPT !.offset = b.offset, !.length = b.length]

\* A step of GcDisc::write: the only step that leaves "parsed" for the end of a
\* write or for one of its two panics.
WriteStep == pc = "parsed" /\ WriteCalled'

\* C16: a write keeps the number and order of the entries, changes nothing of
\* an entry but its offset and length, changes nothing at all of a directory
\* entry (the root and its entry count included), and leaves the name pool.
C16_PlannerFrame ==
    [][WriteStep =>
           /\ Len(fst_entries') = Len(fst_entries)
           /\ \A i \in 1 .. Len(fst_entries) :
                  /\ SameButPlacement(fst_entries[i], fst_entries'[i])
                  /\ is_folder(fst_entries[i]) => fst_entries'[i] = fst_entries[i]
           /\ string_table' = string_table]_vars

\* The planner has run over a table with a directory next to the root and has
\* moved a file.
C16_Witness ==
    /\ Planned
    /\ \E i \in 2 .. Len(fst_entries) : is_folder(fst_entries[i])
    /\ \E i \in Files :
           /\ fst_entries[i].offset # disc.fst[i].offset
           /\ fst_entries[i].length # disc.fst[i].length

-----------------------------------------------------------------------------
(* C17: the extent of the name pool *)

\* The bytes of the N fixed-size entries of the table.
EntriesSize == Num(Len(fst_entries) * FST_ENTRY_SIZE)

\* C17: once the table is read, the name pool starts right after the N entries
\* and, with them, spans the directory-table length of the header; the table a
\* write serializes, entries and pool, is that many bytes long.
C17_NamePoolExtent ==
    /\ string_table # NoValue =>
           /\ string_table.off = NumAdd(header.fst_offset, EntriesSize)
           /\ NumAdd(EntriesSize, string_table.len) = header.fst_length
    /\ pc = "done" =>
           \E k, l \in 1 .. Len(sink) :
               /\ sink[k].what = "fst_entries" /\ sink[l].what = "string_table"
               /\ NumAdd(sink[k].len, sink[l].len) = header.fst_length

-----------------------------------------------------------------------------
(* C18: the header's frame *)

\* Header b is header a but for the boot offset.
SameButBootOffset(a, b) == b = [a EXCEPT !.main_dol_offset = b.main_dol_offset]

\* C18: after a successful write, the header in memory and the one header the
\* sink received are the header of the input but for main_dol_offset:
\* identifiers and padding, magic, directory-table offset, length and maximum
\* length are as parsed.
C18_HeaderFrame ==
    pc = "done" =>
        /\ SameButBootOffset(disc.header, header)
        /\ \E k \in 1 .. Len(sink) :
               /\ sink[k].what = "header"
               /\ sink[k].content = <<"header", header>>
               /\ \A l \in 1 .. Len(sink) : sink[l].what = "header" => l = k

\* A write succeeded and gave the header a boot offset other than the input's.
C18_Witness ==
    /\ pc = "done"
    /\ header.main_dol_offset # disc.header.main_dol_offset
    /\ \E k \in 1 .. Len(sink) : sink[k].what = "header"

-----------------------------------------------------------------------------
(* C19: the front region *)

\* The writes of the header, the header-info block, the apploader and the
\* directory table (entries and name pool).
FrontWrites == { k \in 1 .. Len(sink) : sink[k].op = "write" /\ sink[k].what # "file" }

\* The byte after the last one a write puts down.
WriteEnd(w) == NumAdd(w.pos, w.len)

\* The byte ranges [p, p + l) and [q, q + m) share no byte.
Disjoint(p, l, q, m) ==
    \/ l = ZERO
    \/ m = ZERO
    \/ Le(NumAdd(p, l), q)
    \/ Le(NumAdd(q, m), p)

\* The lengths of the files, each rounded up to a multiple of 32, fit between
\* the end of every front write and the capacity.
FitsBehindFront ==
    \A k \in FrontWrites :
        SumBlocks(Lengths, Files) <= CapacityBlocks - BlocksOf(WriteEnd(sink[k]))

\* C19: after a successful write whose aligned file lengths fit in the capacity
\* less the front region, no file's range [offset, offset + length) shares a
\* byte with a range written for the header, the header-info block, the
\* apploader or the directory table.
C19_FrontRegionProtected ==
    (pc = "done" /\ FitsBehindFront) =>
        \A i \in Files, k \in FrontWrites :
            Disjoint(fst_entries[i].offset, fst_entries[i].length, sink[k].pos, sink[k].len)

\* A write succeeded on two files that fit behind the front region, one of them
\* grown by the caller.
C19_Witness ==
    /\ pc = "done" /\ FitsBehindFront
    /\ Cardinality(Files) = 2
    /\ \E i \in Files :
           /\ fst_entries[i].file.kind = "ExternalFile"
           /\ Lt(disc.fst[i].length, fst_entries[i].length)

-----------------------------------------------------------------------------
(* C20: disjoint placement *)

\* The writes of file payloads.
FileWrites == { k \in 1 .. Len(sink) : sink[k].what = "file" }

\* The ranges [offset, offset + length) of any two files share no byte.
PlannedRangesDisjoint ==
    \A i, j \in Files :
        i # j => Disjoint(fst_entries[i].offset, fst_entries[i].length,
                          fst_entries[j].offset, fst_entries[j].length)

\* The bytes write_files puts down for any two files share no position.
FileWritesDisjoint ==
    \A k, l \in FileWrites :
        k # l => Disjoint(sink[k].pos, sink[k].len, sink[l].pos, sink[l].len)

\* C20: once the planner has run with the files' lengths, each rounded up to a
\* multiple of 32, summing to at most the capacity, the ranges of any two files
\* of non-zero length share no byte, and write_files writes no payload over
\* another's.
C20_DisjointPlacement ==
    (Planned /\ SumBlocks(Lengths, Files) <= CapacityBlocks) =>
        /\ PlannedRangesDisjoint
        /\ FileWritesDisjoint

-----------------------------------------------------------------------------
(* C21: replanning *)

\* What the planner makes of the table as it stands, run once more.
Replanned == recalculate_offsets_and_lengths(fst_entries, overflow_checks)

\* C21: once the planner has run, running it again on the table as it left it
\* ends without a fatal error and gives every file the offset and the length
\* it already has.
C21_ReplanningIdempotent ==
    Planned =>
        /\ ~Replanned.panic
        /\ \A i \in Files :
               /\ Replanned.entries[i].offset = fst_entries[i].offset
               /\ Replanned.entries[i].length = fst_entries[i].length

-----------------------------------------------------------------------------
(* C22: the extent of an external payload *)

\* The writes of the payloads that are ExternalFile.
ExternalWrites == { k \in FileWrites : fst_entries[sink[k].idx].file.kind = "ExternalFile" }

\* C22: once write_files has run, each ExternalFile payload has put down as many
\* bytes as its declared size, all of them within [offset, offset + length) of
\* its entry, and none in the range of another file.
C22_ExternalWithinItsRange ==
    Planned =>
        \A k \in ExternalWrites :
            LET e == fst_entries[sink[k].idx]
            IN  /\ sink[k].len = FileSize(e.file)
                /\ sink[k].pos = e.offset
                /\ Le(WriteEnd(sink[k]), NumAdd(e.offset, e.length))
                /\ \A j \in Files \ {sink[k].idx} :
                       Disjoint(sink[k].pos, sink[k].len,
                                fst_entries[j].offset, fst_entries[j].length)

====
